---- MODULE Spec2Model ----
(***************************************************************************)
(* Model of the Baltimore permit MCP server (server.py): the paginated     *)
(* fetcher query_permit_api_paginated, the single-request helper           *)
(* query_permit_api, and the call_tool handlers that use them.             *)
(*                                                                         *)
(* One step of the model is what the asyncio coroutine does between two    *)
(* await points: a call runs up to its first remote request (or to its     *)
(* end), and the arrival of a response runs it up to the next request (or  *)
(* to its end).  The remote feature service is the environment.            *)
(***************************************************************************)
EXTENDS Integers, Sequences, FiniteSets, TLC

VARIABLES
    remoteData,    \* the remote table: a sequence of permit records
    name,          \* operation of the current call ("idle" before one)
    arguments,     \* its arguments
    pc,            \* "idle", "await" (paginated request in flight),
                   \* "await_single" (call_tool awaits query_permit_api),
                   \* "done" (returned), "raised" (exception propagated)
    where,         \* filter expression of the call
    max_records,   \* query_permit_api_paginated: max_records (None = all)
    page_size,     \* query_permit_api_paginated: page_size
    all_features,  \* query_permit_api_paginated: accumulator
    offset,        \* query_permit_api_paginated: offset
    batch_size,    \* query_permit_api_paginated: batch_size of the last round
    requests,      \* history: params of every remote request issued
    responses,     \* history: summary of every response received
    wellBehaved,   \* history: every response so far was the exact one
    result         \* what the call returned or raised

vars == <<remoteData, name, arguments, pc, where, max_records, page_size,
          all_features, offset, batch_size, requests, responses, wellBehaved,
          result>>

-----------------------------------------------------------------------------
(* Bounds of the model *)

MaxTotal == 3
MaxResp == 3
MaxRecords == 3
MaxPage == 2
MaxLimit == 2
MaxDays == 2
MaxRounds == 4
MaxLen == 2

(* Program constants *)

DefaultPageSize == 1000
DefaultLimit == 50

-----------------------------------------------------------------------------
(* Python values *)

None == <<>>
Some(x) == <<x>>
Get(opt, default) == IF opt = None THEN default ELSE opt[1]

Min(a, b) == IF a <= b THEN a ELSE b
Max(a, b) == IF a >= b THEN a ELSE b

DaySec == 24 * 60 * 60
DayMs == DaySec * 1000

-----------------------------------------------------------------------------
(* Strings: a string is a sequence of one-character strings *)

Alphabet == {"a", "'"}

TextValues == UNION {[1..n -> Alphabet] : n \in 0..MaxLen}

\* value.replace("'", "''")
EscapeNothing(s) == s

RECURSIVE Escape(_)
Escape(s) ==
    IF s = <<>> THEN <<>>
    ELSE IF s[1] = "'" THEN <<"'", "'">> \o Escape(Tail(s))
    ELSE <<s[1]>> \o Escape(Tail(s))

\* how SQL reads a quoted literal from position i on: a doubled quote is one
\* quote of the value, a single quote closes the literal, and the literal
\* must close on the last character; None for a malformed literal
RECURSIVE DecodeFrom(_, _, _)
DecodeFrom(s, i, acc) ==
    IF i > Len(s) THEN None
    ELSE IF s[i] = "'"
    THEN IF i < Len(s) /\ s[i + 1] = "'"
         THEN DecodeFrom(s, i + 2, Append(acc, "'"))
         ELSE IF i = Len(s) THEN Some(acc) ELSE None
    ELSE DecodeFrom(s, i + 1, Append(acc, s[i]))

SqlLiteral(text) ==
    IF text = <<>> \/ text[1] # "'" THEN None ELSE DecodeFrom(text, 2, <<>>)

Contains(hay, needle) ==
    \E i \in 0..(Len(hay) - Len(needle)) : SubSeq(hay, i + 1, i + Len(needle)) = needle

-----------------------------------------------------------------------------
(* The remote feature service (environment) *)

\* issued timestamps (epoch milliseconds) that a remote record may carry
TsValues == {DayMs, 2 * DayMs + 3600 * 1000, 3 * DayMs}

\* the remote table: the i-th record has case number i
Tables ==
    UNION {[1..n -> TsValues] : n \in 0..MaxTotal}

Permit(i, ts) == [CaseNumber |-> i, IssuedDate |-> ts]

Table(t) == [i \in 1..Len(t) |-> Permit(i, t[i])]

\* filter expressions
\* the text columns of the i-th record of the remote table
ColumnTexts == << <<"a">>, <<"'">>, <<"a", "'">>, <<"'", "a">>, <<"a", "a">> >>

CaseNumberOf(i) == ColumnTexts[((i - 1) % Len(ColumnTexts)) + 1]

AddressOf(i) == ColumnTexts[((i - 1) % Len(ColumnTexts)) + 1]

\* the first record's Neighborhood is NULL
NeighborhoodOf(i) ==
    IF i = 1 THEN None ELSE Some(ColumnTexts[((i - 1) % Len(ColumnTexts)) + 1])

\* filter expressions: the kind names the predicate, a and b are its numbers,
\* text is its quoted literal as sent (the whole expression for 1=1)
WhereAll == [kind |-> "1=1", a |-> 0, b |-> 0, text |-> <<"1", "=", "1">>]
WhereIssuedGe(ts) == [kind |-> "IssuedDate>=", a |-> ts, b |-> 0, text |-> <<>>]
WhereIssuedBetween(s, e) == [kind |-> "IssuedDate>=AND<=", a |-> s, b |-> e, text |-> <<>>]

\* f"CaseNumber = '{escaped_case_number}'"
WhereCaseNumber(c) ==
    [kind |-> "CaseNumber=", a |-> 0, b |-> 0,
     text |-> <<"'">> \o Escape(c) \o <<"'">>]

\* f"{column} LIKE '%{escaped}%'"
WhereLike(column, value) ==
    [kind |-> column, a |-> 0, b |-> 0,
     text |-> <<"'", "%">> \o Escape(value) \o <<"%", "'">>]

\* search_permits_by_address: the filter for an address
AddressWhere(address) ==
    IF address # <<>> THEN WhereLike("Address LIKE", address) ELSE WhereAll

\* search_permits_by_neighborhood: the filter for a neighborhood
NeighborhoodWhere(neighborhood) == WhereLike("Neighborhood LIKE", neighborhood)

\* column LIKE '%v%' : v is a substring of the column's value; NULL never matches
Like(column, text) ==
    LET d == SqlLiteral(text)
    IN /\ column # None
       /\ d # None
       /\ Len(d[1]) >= 2
       /\ Contains(column[1], SubSeq(d[1], 2, Len(d[1]) - 1))

Matches(p, w) ==
    CASE w.kind = "1=1" -> TRUE
      [] w.kind = "IssuedDate>=" -> p.IssuedDate >= w.a
      [] w.kind = "IssuedDate>=AND<=" -> p.IssuedDate >= w.a /\ p.IssuedDate <= w.b
      [] w.kind = "CaseNumber=" -> SqlLiteral(w.text) = Some(CaseNumberOf(p.CaseNumber))
      [] w.kind = "Address LIKE" -> Like(Some(AddressOf(p.CaseNumber)), w.text)
      [] w.kind = "Neighborhood LIKE" -> Like(NeighborhoodOf(p.CaseNumber), w.text)

\* the records that match a filter, in the remote's order
Matching(w) == SelectSeq(remoteData, LAMBDA p : Matches(p, w))

\* the response of a remote that honours resultOffset and resultRecordCount
\* and flags exceededTransferLimit exactly when records remain
HonestResponse(req) ==
    LET m == Matching(req.where)
        o == Get(req.resultOffset, 0)
        left == Max(Len(m) - o, 0)
        n == Min(Get(req.resultRecordCount, left), left)
    IN [ok |-> TRUE,
        features |-> SubSeq(m, o + 1, o + n),
        exceededTransferLimit |-> o + n < Len(m)]

\* a response of a remote that returns any number of its records and flags
\* exceededTransferLimit at will
AnyResponse(req, n, flag) ==
    LET o == Get(req.resultOffset, 0)
        k == Len(remoteData)
    IN [ok |-> TRUE,
        features |-> [i \in 1..n |-> remoteData[((o + i - 1) % k) + 1]],
        exceededTransferLimit |-> flag]

\* transport or HTTP failure, timeout (httpx.HTTPError)
FailedResponse == [ok |-> FALSE, features |-> <<>>, exceededTransferLimit |-> FALSE]

FeatureResponses(req) ==
    {HonestResponse(req), FailedResponse}
    \cup {AnyResponse(req, n, flag) :
            n \in 0..(IF remoteData = <<>> THEN 0 ELSE MaxResp), flag \in BOOLEAN}

Summary(resp) ==
    [ok |-> resp.ok, count |-> Len(resp.features),
     exceededTransferLimit |-> resp.exceededTransferLimit, data |-> None]

-----------------------------------------------------------------------------
(* query_permit_api: the request parameters *)

Params(where_clause, result_offset, max_rec, return_count_only) ==
    [where |-> where_clause,
     resultOffset |-> result_offset,
     resultRecordCount |-> max_rec,
     returnCountOnly |-> return_count_only]

-----------------------------------------------------------------------------
(* Results *)

NoResult == [kind |-> "none", tag |-> "", features |-> <<>>, blocks |-> <<>>, total |-> 0]

\* query_permit_api: raise Exception("Failed to fetch permit data: ...")
FetchFailedBroken(af) ==
    [pc |-> "done",
     result |-> [kind |-> "collection", tag |-> "FeatureCollection",
                 features |-> af, blocks |-> <<>>, total |-> Len(af)]]

FetchFailed(af) ==
    [pc |-> "raised",
     result |-> [kind |-> "error", tag |-> "Failed to fetch permit data",
                 features |-> <<>>, blocks |-> <<>>, total |-> 0]]

\* query_permit_api_paginated: the returned feature collection
Collection(af) ==
    [kind |-> "collection", tag |-> "FeatureCollection",
     features |-> af, blocks |-> <<>>, total |-> Len(af)]

TextResult(tag, feats, blocks, total) ==
    [kind |-> "text", tag |-> tag, features |-> feats, blocks |-> blocks, total |-> total]

-----------------------------------------------------------------------------
(* Calendar arithmetic behind datetime.strptime / timestamp / fromtimestamp / *)
(* strftime.  The process's local time zone is taken to be UTC.               *)

IsLeap(y) == (y % 4 = 0 /\ y % 100 # 0) \/ y % 400 = 0

DaysInYear(y) == IF IsLeap(y) THEN 366 ELSE 365

DaysInMonth(y, m) ==
    IF m = 2 THEN (IF IsLeap(y) THEN 29 ELSE 28)
    ELSE IF m \in {4, 6, 9, 11} THEN 30 ELSE 31

RECURSIVE DaysBeforeYear(_)
DaysBeforeYear(y) ==
    IF y <= 1970 THEN 0 ELSE DaysBeforeYear(y - 1) + DaysInYear(y - 1)

RECURSIVE DaysBeforeMonth(_, _)
DaysBeforeMonth(y, m) ==
    IF m <= 1 THEN 0 ELSE DaysBeforeMonth(y, m - 1) + DaysInMonth(y, m - 1)

\* datetime(y, m, d).timestamp(), in seconds
Timestamp(y, m, d) ==
    (DaysBeforeYear(y) + DaysBeforeMonth(y, m) + d - 1) * DaySec

RECURSIVE YearOfDay(_, _)
YearOfDay(days, y) ==
    IF days < DaysInYear(y) THEN <<y, days>>
    ELSE YearOfDay(days - DaysInYear(y), y + 1)

RECURSIVE MonthOfDay(_, _, _)
MonthOfDay(days, y, m) ==
    IF days < DaysInMonth(y, m) THEN <<m, days + 1>>
    ELSE MonthOfDay(days - DaysInMonth(y, m), y, m + 1)

\* datetime.fromtimestamp(ms / 1000).strftime("%Y-%m-%d"), as <<Y, m, d>>
FormatDate(ms) ==
    LET yd == YearOfDay((ms \div 1000) \div DaySec, 1970)
        md == MonthOfDay(yd[2], yd[1], 1)
    IN <<yd[1], md[1], md[2]>>

\* a string is a sequence of one-character strings
Digits == {"0", "1", "2", "3", "4", "5", "6", "7", "8", "9"}

DigitVal(c) ==
    CASE c = "0" -> 0 [] c = "1" -> 1 [] c = "2" -> 2 [] c = "3" -> 3
      [] c = "4" -> 4 [] c = "5" -> 5 [] c = "6" -> 6 [] c = "7" -> 7
      [] c = "8" -> 8 [] c = "9" -> 9

AllDigits(s) == \A i \in 1..Len(s) : s[i] \in Digits

RECURSIVE NumVal(_)
NumVal(s) ==
    IF s = <<>> THEN 0
    ELSE 10 * NumVal(SubSeq(s, 1, Len(s) - 1)) + DigitVal(s[Len(s)])

\* %m : 1[0-2] | 0[1-9] | [1-9]
MonthForm(s) ==
    \/ Len(s) = 1 /\ s[1] \in Digits \ {"0"}
    \/ Len(s) = 2 /\ s[1] = "0" /\ s[2] \in Digits \ {"0"}
    \/ Len(s) = 2 /\ s[1] = "1" /\ s[2] \in {"0", "1", "2"}

\* %d : 3[0-1] | [1-2]\d | 0[1-9] | [1-9] | " "[1-9]
DayForm(s) ==
    \/ Len(s) = 1 /\ s[1] \in Digits \ {"0"}
    \/ Len(s) = 2 /\ s[1] \in {"0", " "} /\ s[2] \in Digits \ {"0"}
    \/ Len(s) = 2 /\ s[1] \in {"1", "2"} /\ s[2] \in Digits
    \/ Len(s) = 2 /\ s[1] = "3" /\ s[2] \in {"0", "1"}

\* datetime.strptime(s, "%Y-%m-%d"): Some(<<Y, m, d>>), or None for ValueError
Strptime(s) ==
    LET dashes == {i \in 1..Len(s) : s[i] = "-"}
        second == dashes \ {5}
    IN IF /\ Cardinality(dashes) = 2
          /\ 5 \in dashes
          /\ second \subseteq {7, 8}
       THEN LET k == CHOOSE i \in second : TRUE
                ys == SubSeq(s, 1, 4)
                ms == SubSeq(s, 6, k - 1)
                ds == SubSeq(s, k + 1, Len(s))
                dd == IF ds[1] = " " THEN SubSeq(ds, 2, 2) ELSE ds
            IN IF /\ AllDigits(ys)
                  /\ MonthForm(ms)
                  /\ DayForm(ds)
                  /\ NumVal(ys) >= 1
                  /\ NumVal(dd) <= DaysInMonth(NumVal(ys), NumVal(ms))
               THEN Some(<<NumVal(ys), NumVal(ms), NumVal(dd)>>)
               ELSE None
       ELSE None

\* int(datetime.strptime(s, "%Y-%m-%d").timestamp() * 1000)
DateMs(s) ==
    LET d == Strptime(s)[1] IN Timestamp(d[1], d[2], d[3]) * 1000

-----------------------------------------------------------------------------
(* format_permit, as far as the handlers below depend on it *)

format_permit(permit) ==
    [Permit |-> permit.CaseNumber,
     Issued |-> IF permit.IssuedDate # 0 THEN FormatDate(permit.IssuedDate) ELSE <<>>]

FormatAll(features) == [i \in 1..Len(features) |-> format_permit(features[i])]

-----------------------------------------------------------------------------
(* query_permit_api_paginated *)

\* while len(all_features) < total_requested
LoopCondInclusive(n, M) == M = None \/ n <= M[1]

LoopCond(n, M) == M = None \/ n < M[1]

\* batch_size = min(page_size, remaining) if max_records is not None else page_size
BatchSizeWholePage(P, M, n) == P

BatchSize(P, M, n) == IF M # None THEN Min(P, M[1] - n) ELSE P

\* one round's response handled: the three breaks, the offset update and
\* the loop test that follows
AfterRoundUntilShortPage(af, off, features, flag, batch, M) ==
    [stop |-> Len(features) < batch,
     all_features |-> af \o features,
     offset |-> off + Len(features)]

AfterRoundOffsetStuck(af, off, features, flag, batch, M) ==
    IF features = <<>>
    THEN [stop |-> TRUE, all_features |-> af, offset |-> off]
    ELSE [stop |-> \/ Len(features) < batch
                   \/ ~flag
                   \/ ~LoopCond(Len(af \o features), M),
          all_features |-> af \o features,
          offset |-> off]

AfterRound(af, off, features, flag, batch, M) ==
    IF features = <<>>
    THEN [stop |-> TRUE, all_features |-> af, offset |-> off]
    ELSE LET af2 == af \o features
         IN IF Len(features) < batch
            THEN [stop |-> TRUE, all_features |-> af2, offset |-> off]
            ELSE IF ~flag
            THEN [stop |-> TRUE, all_features |-> af2, offset |-> off]
            ELSE [stop |-> ~LoopCond(Len(af2), M),
                  all_features |-> af2,
                  offset |-> off + Len(features)]

-----------------------------------------------------------------------------
(* call_tool: the synchronous parts of the handlers *)

\* Python's seq[:n]
Take(s, n) ==
    IF n >= 0 THEN SubSeq(s, 1, Min(n, Len(s)))
    ELSE SubSeq(s, 1, Max(Len(s) + n, 0))

\* sorted(features, key=IssuedDate, reverse=True): stable, descending
RECURSIVE InsertDesc(_, _)
InsertDesc(s, x) ==
    IF s = <<>> THEN <<x>>
    ELSE IF s[Len(s)].IssuedDate >= x.IssuedDate THEN Append(s, x)
    ELSE Append(InsertDesc(SubSeq(s, 1, Len(s) - 1), x), s[Len(s)])

RECURSIVE SortDesc(_)
SortDesc(s) ==
    IF s = <<>> THEN <<>>
    ELSE InsertDesc(SortDesc(SubSeq(s, 1, Len(s) - 1)), s[Len(s)])

\* get_recent_permits: sorted(...)[:limit]
RecentFeaturesUnsorted(features, limit) == Take(features, limit)

RecentFeatures(features, limit) == Take(SortDesc(features), limit)

\* get_recent_permits: cutoff_ts from datetime.now() (seconds) and days
CutoffTs(now, days) == ((now \div DaySec) * DaySec - days * 24 * 60 * 60) * 1000

\* search_permits_by_date_range: the try block around the two strptime calls;
\* None when ValueError is caught
ParseDatesStartOnly(start_date, end_date) ==
    IF Strptime(start_date) = None THEN None
    ELSE Some(<<DateMs(start_date),
                IF Strptime(end_date) = None THEN DateMs(start_date)
                ELSE DateMs(end_date)>>)

ParseDates(start_date, end_date) ==
    IF Strptime(start_date) = None \/ Strptime(end_date) = None THEN None
    ELSE Some(<<DateMs(start_date), DateMs(end_date)>>)

\* search_permits_by_case_number: the result built from the response
CaseNumberResultAll(features) ==
    IF features = <<>> THEN TextResult("No permit found", <<>>, <<>>, 0)
    ELSE TextResult("Permit details", features, FormatAll(features), Len(features))

CaseNumberResult(features) ==
    IF features = <<>> THEN TextResult("No permit found", <<>>, <<>>, 0)
    ELSE TextResult("Permit details", <<features[1]>>, <<format_permit(features[1])>>, 1)

\* count_permits: the count read from the response
ExtractCountTopLevel(data) == Get(data.count, 0)

ExtractCount(data) ==
    IF data.properties # None THEN Get(data.properties[1], 0)
    ELSE Get(data.count, 0)

\* what a handler does with the collection the paginated fetcher returned
Continuation(nm, args, data) ==
    CASE nm = "query_permit_api_paginated" -> data
      [] nm = "search_permits_by_date_range" ->
            IF data.features = <<>>
            THEN TextResult("No permits found", <<>>, <<>>, 0)
            ELSE TextResult("Found", data.features, FormatAll(data.features), data.total)
      [] nm \in {"search_permits_by_address", "search_permits_by_neighborhood"} ->
            IF data.features = <<>>
            THEN TextResult("No permits found", <<>>, <<>>, 0)
            ELSE TextResult("Found", data.features, FormatAll(data.features), data.total)
      [] nm = "get_recent_permits" ->
            IF data.features = <<>>
            THEN TextResult("No permits found", <<>>, <<>>, 0)
            ELSE LET features == RecentFeatures(data.features, Get(args.limit, DefaultLimit))
                 IN TextResult("Found", features, FormatAll(features), Len(features))

-----------------------------------------------------------------------------
(* Inputs *)

MaxRecordsValues == {None} \cup {Some(m) : m \in -1..MaxRecords}

PageSizes == 1..MaxPage

Limits == {None} \cup {Some(l) : l \in 0..MaxLimit}

Days == 0..MaxDays

\* datetime.now(), in epoch seconds
NowValues == {3 * DaySec + 3600}

FetchFilters == {WhereAll, WhereIssuedGe(2 * DayMs)}

CaseNumbers == TextValues

TextInputs == {None} \cup {Some(v) : v \in TextValues}

DateInputs ==
    {None,
     Some(<<"1", "9", "7", "0", "-", "0", "1", "-", "0", "2">>),
     Some(<<"1", "9", "7", "0", "-", "1", "-", "4">>),
     Some(<<"1", "9", "7", "0", "-", "1", "3", "-", "0", "1">>),
     Some(<<"0", "1", "/", "0", "2", "/", "1", "9", "7", "0">>),
     Some(<<"1", "9", "7", "0", "-", "0", "2", "-", "3", "0">>)}

\* the shapes of a count response: properties (absent, present without count,
\* present with count) and top-level count (absent, present)
CountResponses(n) ==
    {[properties |-> p, count |-> c] :
        p \in {None, Some(None), Some(Some(n))}, c \in {None, Some(n)}}

-----------------------------------------------------------------------------
(* Actions *)

Init ==
    /\ remoteData \in {Table(t) : t \in Tables}
    /\ name = "idle"
    /\ arguments = [limit |-> None]
    /\ pc = "idle"
    /\ where = WhereAll
    /\ max_records = None
    /\ page_size = DefaultPageSize
    /\ all_features = <<>>
    /\ offset = 0
    /\ batch_size = 0
    /\ requests = <<>>
    /\ responses = <<>>
    /\ wellBehaved = TRUE
    /\ result = NoResult

\* query_permit_api_paginated from the loop test on: either the next request
\* is issued (and awaited), or the function returns and its caller finishes
Proceed(nm, args, w, M, P, af, off, stop) ==
    /\ all_features' = af
    /\ offset' = off
    /\ IF stop
       THEN /\ pc' = "done"
            /\ result' = Continuation(nm, args, Collection(af))
            /\ UNCHANGED <<batch_size, requests>>
       ELSE LET batch == BatchSize(P, M, Len(af))
            IN /\ Len(requests) < MaxRounds
               /\ pc' = "await"
               /\ batch_size' = batch
               /\ requests' = Append(requests, Params(w, Some(off), Some(batch), FALSE))
               /\ UNCHANGED result

\* a call enters query_permit_api_paginated
Paginate(nm, args, w, M, P) ==
    /\ pc = "idle"
    /\ name' = nm
    /\ arguments' = args
    /\ where' = w
    /\ max_records' = M
    /\ page_size' = P
    /\ Proceed(nm, args, w, M, P, <<>>, 0, ~LoopCond(0, M))
    /\ UNCHANGED <<remoteData, responses, wellBehaved>>

\* query_permit_api_paginated called directly, as test_pagination.py does
CallFetch(w, M, P) ==
    Paginate("query_permit_api_paginated", [limit |-> None], w, M, P)

\* call_tool("search_permits_by_date_range", ...)
CallDateRange(start_date, end_date, limit) ==
    /\ pc = "idle"
    /\ LET args == [start_date |-> start_date, end_date |-> end_date, limit |-> limit]
           parsed == ParseDates(Get(start_date, <<>>), Get(end_date, <<>>))
       IN IF parsed = None
          THEN /\ name' = "search_permits_by_date_range"
               /\ arguments' = args
               /\ pc' = "done"
               /\ result' = TextResult("Invalid date format", <<>>, <<>>, 0)
               /\ UNCHANGED <<remoteData, where, max_records, page_size, all_features,
                              offset, batch_size, requests, responses, wellBehaved>>
          ELSE Paginate("search_permits_by_date_range", args,
                        WhereIssuedBetween(parsed[1][1], parsed[1][2]),
                        Some(Get(limit, DefaultLimit)), DefaultPageSize)

\* call_tool("search_permits_by_address", ...)
CallAddress(address, limit) ==
    Paginate("search_permits_by_address", [address |-> address, limit |-> limit],
             AddressWhere(Get(address, <<>>)),
             Some(Get(limit, DefaultLimit)), DefaultPageSize)

\* call_tool("search_permits_by_neighborhood", ...)
CallNeighborhood(neighborhood, limit) ==
    Paginate("search_permits_by_neighborhood",
             [neighborhood |-> neighborhood, limit |-> limit],
             NeighborhoodWhere(Get(neighborhood, <<>>)),
             Some(Get(limit, DefaultLimit)), DefaultPageSize)

\* call_tool("get_recent_permits", ...)
CallRecent(limit, days, now) ==
    Paginate("get_recent_permits", [limit |-> limit, days |-> days],
             WhereIssuedGe(CutoffTs(now, days)),
             Some(Get(limit, DefaultLimit) * 2), DefaultPageSize)

\* a call_tool handler that awaits query_permit_api itself
Single(nm, args, w, return_count_only) ==
    /\ pc = "idle"
    /\ name' = nm
    /\ arguments' = args
    /\ where' = w
    /\ pc' = "await_single"
    /\ requests' = Append(requests, Params(w, None, None, return_count_only))
    /\ UNCHANGED <<remoteData, max_records, page_size, all_features, offset,
                   batch_size, responses, wellBehaved, result>>

\* call_tool("search_permits_by_case_number", ...)
CallCaseNumber(case_number) ==
    Single("search_permits_by_case_number", [case_number |-> case_number],
           WhereCaseNumber(case_number), FALSE)

\* call_tool("count_permits", ...)
CallCount(where_clause) ==
    Single("count_permits", [where_clause |-> where_clause],
           Get(where_clause, WhereAll), TRUE)

\* the response to a request of the pagination loop arrives
ReceivePage(resp) ==
    /\ pc = "await"
    /\ responses' = Append(responses, Summary(resp))
    /\ wellBehaved' = (wellBehaved /\ resp = HonestResponse(requests[Len(requests)]))
    /\ IF ~resp.ok
       THEN /\ pc' = FetchFailed(all_features).pc
            /\ result' = FetchFailed(all_features).result
            /\ UNCHANGED <<all_features, offset, batch_size, requests>>
       ELSE LET r == AfterRound(all_features, offset, resp.features,
                                resp.exceededTransferLimit, batch_size, max_records)
            IN Proceed(name, arguments, where, max_records, page_size,
                       r.all_features, r.offset, r.stop)
    /\ UNCHANGED <<remoteData, name, arguments, where, max_records, page_size>>

\* the response to search_permits_by_case_number's request arrives
ReceiveFeatures(resp) ==
    /\ pc = "await_single"
    /\ name = "search_permits_by_case_number"
    /\ responses' = Append(responses, Summary(resp))
    /\ wellBehaved' = (wellBehaved /\ resp = HonestResponse(requests[Len(requests)]))
    /\ IF ~resp.ok
       THEN /\ pc' = FetchFailed(<<>>).pc
            /\ result' = FetchFailed(<<>>).result
       ELSE /\ pc' = "done"
            /\ result' = CaseNumberResult(resp.features)
    /\ UNCHANGED <<remoteData, name, arguments, where, max_records, page_size,
                   all_features, offset, batch_size, requests>>

\* the response to count_permits's request arrives
ReceiveCount(data) ==
    /\ pc = "await_single"
    /\ name = "count_permits"
    /\ responses' = Append(responses,
            [ok |-> TRUE, count |-> Len(Matching(where)),
             exceededTransferLimit |-> FALSE, data |-> data])
    /\ pc' = "done"
    /\ result' = TextResult("Found count", <<>>, <<>>, ExtractCount(data))
    /\ UNCHANGED <<remoteData, name, arguments, where, max_records, page_size,
                   all_features, offset, batch_size, requests, wellBehaved>>

\* count_permits's request fails
ReceiveCountFailed ==
    /\ pc = "await_single"
    /\ name = "count_permits"
    /\ responses' = Append(responses, Summary(FailedResponse))
    /\ pc' = FetchFailed(<<>>).pc
    /\ result' = FetchFailed(<<>>).result
    /\ UNCHANGED <<remoteData, name, arguments, where, max_records, page_size,
                   all_features, offset, batch_size, requests, wellBehaved>>

Next ==
    \/ \E w \in FetchFilters, M \in MaxRecordsValues, P \in PageSizes : CallFetch(w, M, P)
    \/ \E s \in DateInputs, e \in DateInputs, l \in Limits : CallDateRange(s, e, l)
    \/ \E l \in Limits, d \in Days, now \in NowValues : CallRecent(l, d, now)
    \/ \E a \in TextInputs, l \in Limits : CallAddress(a, l)
    \/ \E n \in TextInputs, l \in Limits : CallNeighborhood(n, l)
    \/ \E c \in CaseNumbers : CallCaseNumber(c)
    \/ \E w \in {None} \cup {Some(f) : f \in FetchFilters} : CallCount(w)
    \/ pc = "await" /\ \E resp \in FeatureResponses(requests[Len(requests)]) : ReceivePage(resp)
    \/ pc = "await_single" /\ \E resp \in FeatureResponses(requests[Len(requests)]) : ReceiveFeatures(resp)
    \/ pc = "await_single" /\ \E data \in CountResponses(Len(Matching(where))) : ReceiveCount(data)
    \/ ReceiveCountFailed

Spec == Init /\ [][Next]_vars

-----------------------------------------------------------------------------
(* format_permit on records as the remote may send them.  A JSON value is   *)
(* [t, v]: absent key, null, a number v, a number beyond the platform's     *)
(* time_t, a non-numeric string of v characters, a list of v numbers, a     *)
(* list of v strings.                                                       *)

DescriptionLimit == 200

Absent == [t |-> "absent", v |-> 0]
Null == [t |-> "null", v |-> 0]
Num(n) == [t |-> "num", v |-> n]
BigNum == [t |-> "bignum", v |-> 0]
Str(n) == [t |-> "str", v |-> n]
List(n) == [t |-> "list", v |-> n]
StrList(n) == [t |-> "strlist", v |-> n]

\* Python truth value
Truthy(x) ==
    \/ x.t = "bignum"
    \/ x.t \in {"num", "str", "list", "strlist"} /\ x.v # 0

Rendered(text) == [raised |-> FALSE, text |-> text]
Raised == [raised |-> TRUE, text |-> <<>>]

\* lines 129-143: a timestamp field; except (ValueError, TypeError, OSError)
RenderTimestamp(x) ==
    IF ~Truthy(x) THEN Rendered(<<>>)
    ELSE CASE x.t = "num" -> Rendered(FormatDate(x.v))
           [] x.t = "bignum" -> Raised
           [] OTHER -> Rendered(<<"str", x.v>>)

\* lines 146-149: lon, lat = geom["coordinates"]; f"({lat:.6f}, {lon:.6f})"
RenderCoordinates(x) ==
    IF ~Truthy(x) THEN Rendered(<<>>)
    ELSE IF x.t = "list" /\ x.v = 2 THEN Rendered(<<"lat", "lon">>)
    ELSE Raised

\* lines 151-152: f"${cost:,.0f}" if cost else "N/A"
RenderCost(x) ==
    IF ~Truthy(x) THEN Rendered(<<"N/A">>)
    ELSE IF x.t \in {"num", "bignum"} THEN Rendered(<<"$", x.v>>)
    ELSE Raised

\* line 161: props.get('Description', 'N/A')[:200]
RenderDescription(x) ==
    CASE x.t = "absent" -> Rendered(<<"N/A">>)
      [] x.t \in {"str", "list", "strlist"} -> Rendered(<<x.t, Min(x.v, DescriptionLimit)>>)
      [] OTHER -> Raised

\* format_permit(permit): the text block, or raised
FormatRecord(permit) ==
    IF permit.properties = "null" \/ permit.geometry = "null" THEN Raised
    ELSE LET issued == RenderTimestamp(permit.IssuedDate)
             expires == RenderTimestamp(permit.ExpirationDate)
             coords == RenderCoordinates(permit.coordinates)
             cost == RenderCost(permit.Cost)
             description == RenderDescription(permit.Description)
         IN IF \/ issued.raised \/ expires.raised \/ coords.raised
               \/ cost.raised \/ description.raised
            THEN Raised
            ELSE Rendered([Issued |-> issued.text, Expires |-> expires.text,
                           Cost |-> cost.text, Description |-> description.text,
                           Location |-> coords.text])

TimestampInputs == {Absent, Null, Num(0), Num(DayMs), Str(3), BigNum}
CostInputs == {Absent, Null, Num(0), Num(1500), Str(3)}
DescriptionInputs == {Absent, Null, Str(5), Str(250), Num(7)}
CoordinateInputs == {Absent, Null, List(0), List(2), List(3), StrList(2)}

\* properties and geometry are each an absent key, null or an object
PermitInputs ==
    {[properties |-> p, IssuedDate |-> i, ExpirationDate |-> e, Cost |-> c,
      Description |-> d, geometry |-> g, coordinates |-> xy] :
        p \in {"absent", "null", "object"}, i \in TimestampInputs,
        e \in TimestampInputs, c \in CostInputs, d \in DescriptionInputs,
        g \in {"absent", "null", "object"}, xy \in CoordinateInputs}

\* the records that can exist: a key of a missing object is absent
WellShaped(permit) ==
    /\ permit.properties # "object"
          => /\ permit.IssuedDate = Absent /\ permit.ExpirationDate = Absent
             /\ permit.Cost = Absent /\ permit.Description = Absent
    /\ permit.geometry # "object" => permit.coordinates = Absent

FormatInit ==
    /\ remoteData = <<>>
    /\ name = "idle"
    /\ arguments = [limit |-> None]
    /\ pc = "idle"
    /\ where = WhereAll
    /\ max_records = None
    /\ page_size = DefaultPageSize
    /\ all_features = <<>>
    /\ offset = 0
    /\ batch_size = 0
    /\ requests = <<>>
    /\ responses = <<>>
    /\ wellBehaved = TRUE
    /\ result = NoResult

\* format_permit(permit) is called
FormatCall(permit) ==
    /\ pc = "idle"
    /\ WellShaped(permit)
    /\ name' = "format_permit"
    /\ arguments' = permit
    /\ LET out == FormatRecord(permit)
       IN IF out.raised
          THEN /\ pc' = "raised"
               /\ result' = [kind |-> "error", tag |-> "format_permit raised",
                             features |-> <<>>, blocks |-> <<>>, total |-> 0]
          ELSE /\ pc' = "done"
               /\ result' = TextResult("Permit", <<>>, <<out.text>>, 1)
    /\ UNCHANGED <<remoteData, where, max_records, page_size, all_features, offset,
                   batch_size, requests, responses, wellBehaved>>

FormatNext == \E permit \in PermitInputs : FormatCall(permit)

FormatSpec == FormatInit /\ [][FormatNext]_vars

-----------------------------------------------------------------------------
(* Properties *)

IsPaginated ==
    name \in {"query_permit_api_paginated", "search_permits_by_date_range",
              "get_recent_permits", "search_permits_by_address",
              "search_permits_by_neighborhood"}

IsFetch == name = "query_permit_api_paginated"

\* the number of records returned by the rounds before round i
RECURSIVE RecordsBefore(_)
RecordsBefore(i) ==
    IF i <= 1 THEN 0 ELSE RecordsBefore(i - 1) + responses[i - 1].count

LimitArg == Get(arguments.limit, DefaultLimit)

\* C1: against a remote that honours offset and record count and flags
\* exceededTransferLimit exactly when records remain, a fetch with
\* max_records = M >= 0 returns exactly min(M, available_total) records and
\* reports that number as totalRetrieved.
C1_ExactCount ==
    (IsFetch /\ pc = "done" /\ wellBehaved /\ max_records # None /\ max_records[1] >= 0)
        => /\ result.kind = "collection"
           /\ Len(result.features) = Min(max_records[1], Len(Matching(where)))
           /\ result.total = Min(max_records[1], Len(Matching(where)))

C1_Witness ==
    /\ IsFetch /\ pc = "done" /\ wellBehaved
    /\ max_records = Some(3) /\ page_size = 2
    /\ Len(requests) = 2
    /\ Len(Matching(where)) = 3
    /\ result.total = 3

\* C2 (as claimed): at every point of a fetch with max_records = M >= 0, and
\* in the returned collection, at most M records are accumulated, whatever
\* number of records each response carries.
C2_NeverExceedsMax ==
    (IsPaginated /\ max_records # None /\ max_records[1] >= 0)
        => /\ Len(all_features) <= max_records[1]
           /\ (IsFetch /\ pc = "done" => Len(result.features) <= max_records[1])

\* C3: every request of the pagination loop carries resultRecordCount =
\* min(page_size, max_records - records_so_far) when max_records is set and
\* page_size when it is unset, that value is at least 1, and no request is
\* issued when max_records <= 0.
C3_RequestCounts ==
    IsPaginated
        => /\ \A i \in 1..Len(requests) :
                /\ requests[i].resultRecordCount # None
                /\ requests[i].resultRecordCount[1] >= 1
                /\ requests[i].resultRecordCount[1] =
                       (IF max_records = None THEN page_size
                        ELSE Min(page_size, max_records[1] - RecordsBefore(i)))
           /\ (max_records # None /\ max_records[1] <= 0 => requests = <<>>)

C3_Witness ==
    /\ IsFetch
    /\ max_records = Some(3) /\ page_size = 2
    /\ Len(requests) = 2
    /\ requests[2].resultRecordCount = Some(1)

\* C4: a fetch with max_records = page_size whose first round returns a full
\* page performs exactly one round when that response does not flag
\* exceededTransferLimit; a second round happens only if it does.
C4_ExactBoundary ==
    (/\ IsFetch /\ max_records = Some(page_size)
     /\ Len(responses) >= 1 /\ responses[1].ok /\ responses[1].count = page_size)
        => /\ (~responses[1].exceededTransferLimit
                  => pc = "done" /\ Len(requests) = 1)
           /\ (Len(requests) >= 2 => responses[1].exceededTransferLimit)

C4_Witness ==
    /\ IsFetch /\ max_records = Some(page_size) /\ page_size = 2
    /\ pc = "done" /\ Len(requests) = 1
    /\ Len(responses) = 1 /\ responses[1].count = 2
    /\ ~responses[1].exceededTransferLimit
    /\ result.total = 2

\* C5: when the request of a round of a paginated fetch fails, the call ends
\* in an error that carries none of the records accumulated before, and no
\* request follows the failed one (no retry, no further round).
C5_FailureAborts ==
    IsPaginated
        => \A i \in 1..Len(responses) :
              ~responses[i].ok
                  => /\ i = Len(responses)
                     /\ Len(requests) = i
                     /\ pc = "raised"
                     /\ result.kind = "error"
                     /\ result.tag = "Failed to fetch permit data"
                     /\ result.features = <<>>
                     /\ result.blocks = <<>>

C5_Witness ==
    /\ IsPaginated /\ pc = "raised"
    /\ Len(responses) = 3 /\ ~responses[3].ok
    /\ Len(all_features) >= 2
    /\ result.kind = "error"

\* C6: count_permits issues exactly one request, with returnCountOnly and
\* without resultOffset and resultRecordCount, never enters the pagination
\* loop, and returns one text block with a non-negative count, which is the
\* response's properties.count or its top-level count.
C6_CountOnly ==
    name = "count_permits"
        => /\ Len(requests) = 1
           /\ requests[1].returnCountOnly
           /\ requests[1].resultOffset = None
           /\ requests[1].resultRecordCount = None
           /\ pc \in {"await_single", "done", "raised"}
           /\ all_features = <<>>
           /\ (pc = "done"
                  => LET d == responses[1].data
                     IN /\ result.kind = "text"
                        /\ result.features = <<>>
                        /\ result.total >= 0
                        /\ (d.properties # None /\ d.properties[1] # None
                               => result.total = d.properties[1][1])
                        /\ (d.properties = None /\ d.count # None
                               => result.total = d.count[1]))

C6_Witness ==
    /\ name = "count_permits" /\ pc = "done"
    /\ responses[1].data.properties # None
    /\ responses[1].data.properties[1] = Some(2)
    /\ responses[1].data.count = None
    /\ result.total = 2

\* C7: search_permits_by_date_range with a start_date or end_date that is
\* missing or does not parse returns one explanatory text block (it does not
\* raise) and issues no remote request.
C7_BadDatesNoRequest ==
    (/\ name = "search_permits_by_date_range"
     /\ \/ Strptime(Get(arguments.start_date, <<>>)) = None
        \/ Strptime(Get(arguments.end_date, <<>>)) = None)
        => /\ pc = "done"
           /\ result.kind = "text"
           /\ result.tag = "Invalid date format"
           /\ requests = <<>>

C7_Witness ==
    /\ name = "search_permits_by_date_range"
    /\ Strptime(Get(arguments.start_date, <<>>)) # None
    /\ arguments.end_date # None
    /\ Strptime(Get(arguments.end_date, <<>>)) = None
    /\ pc = "done"
    /\ result.tag = "Invalid date format"

\* C8: search_permits_by_case_number issues exactly one request, with the
\* exact-match filter, renders at most one record however many the remote
\* returns, and returns the "No permit found" text when it returns none.
C8_CaseNumber ==
    name = "search_permits_by_case_number"
        => /\ Len(requests) = 1
           /\ requests[1] = Params(WhereCaseNumber(arguments.case_number), None, None, FALSE)
           /\ (pc = "done"
                  => /\ result.kind = "text"
                     /\ Len(result.blocks) <= 1
                     /\ (responses[1].count = 0
                            => result.tag = "No permit found" /\ result.blocks = <<>>)
                     /\ (responses[1].count > 0
                            => result.tag = "Permit details" /\ Len(result.blocks) = 1))

C8_Witness ==
    /\ name = "search_permits_by_case_number" /\ pc = "done"
    /\ responses[1].count >= 2
    /\ Len(result.blocks) = 1

\* C9: get_recent_permits with limit >= 1 asks the paginated fetcher for at
\* most 2 * limit records and renders at most limit records, in
\* non-increasing order of issued timestamp, whatever the remote's order.
C9_RecentSorted ==
    (name = "get_recent_permits" /\ LimitArg >= 1)
        => /\ max_records = Some(2 * LimitArg)
           /\ \A i \in 1..Len(requests) :
                 requests[i].resultRecordCount[1] <= 2 * LimitArg
           /\ (pc = "done"
                  => /\ Len(result.blocks) <= LimitArg
                     /\ result.blocks = FormatAll(result.features)
                     /\ \A i, j \in 1..Len(result.features) :
                           i < j => result.features[i].IssuedDate
                                        >= result.features[j].IssuedDate)

C9_Witness ==
    /\ name = "get_recent_permits" /\ pc = "done"
    /\ LimitArg = 2
    /\ Len(all_features) = 3
    /\ all_features[1].IssuedDate < all_features[2].IssuedDate
    /\ all_features[2].IssuedDate < all_features[3].IssuedDate
    /\ Len(result.blocks) = 2

\* C10 (as claimed): against a well-behaved remote, every record that
\* get_recent_permits renders is at least as recent as every record that
\* matches the cutoff filter and is not rendered.
C10_MostRecent ==
    (name = "get_recent_permits" /\ pc = "done" /\ wellBehaved /\ LimitArg >= 1)
        => \A r \in 1..Len(result.features), u \in 1..Len(Matching(where)) :
              (\A k \in 1..Len(result.features) :
                    result.features[k] # Matching(where)[u])
                  => result.features[r].IssuedDate >= Matching(where)[u].IssuedDate

\* the free-text value of the current call, "" when absent
TextArg ==
    CASE name = "search_permits_by_address" -> Get(arguments.address, <<>>)
      [] name = "search_permits_by_neighborhood" -> Get(arguments.neighborhood, <<>>)
      [] name = "search_permits_by_case_number" -> arguments.case_number

QuoteCount(s) == Cardinality({i \in 1..Len(s) : s[i] = "'"})

\* an empty or absent filter value: the filter sent is 1=1, so every record
\* matches and the result is capped at limit
EmptyValueMatchesAll ==
    /\ where.kind = "1=1"
    /\ \A i \in 1..Len(requests) : requests[i].where.kind = "1=1"
    /\ max_records = Some(LimitArg)
    /\ (pc = "done" /\ wellBehaved /\ LimitArg >= 0
           => result.total = Min(LimitArg, Len(remoteData)))

\* C11 (as claimed): for search_permits_by_address and for
\* search_permits_by_neighborhood, an empty or absent value makes the filter
\* sent to the remote the match-all predicate 1=1, so all records match and
\* the result is capped at limit.
C11_EmptyMatchesAll ==
    (/\ name \in {"search_permits_by_address", "search_permits_by_neighborhood"}
     /\ TextArg = <<>>)
        => EmptyValueMatchesAll

\* C12: the filter built for an address, a neighborhood or a case number
\* carries the value with every single quote doubled: read as a SQL literal
\* it closes on its last character and stands for the value itself (between
\* the two % of a LIKE pattern), and it holds two quotes per quote of the
\* value besides the two that delimit it.
C12_QuotesDoubled ==
    (/\ name \in {"search_permits_by_address", "search_permits_by_neighborhood",
                  "search_permits_by_case_number"}
     /\ ~(name = "search_permits_by_address" /\ TextArg = <<>>))
        => /\ SqlLiteral(where.text) =
                  Some(IF name = "search_permits_by_case_number" THEN TextArg
                       ELSE <<"%">> \o TextArg \o <<"%">>)
           /\ QuoteCount(where.text) = 2 + 2 * QuoteCount(TextArg)
           /\ \A i \in 1..Len(requests) : requests[i].where = where

C12_Witness ==
    /\ name = "search_permits_by_address"
    /\ TextArg = <<"a", "'">>
    /\ where.text = <<"'", "%", "a", "'", "'", "%", "'">>
    /\ Len(requests) = 1

\* C13 (as claimed): format_permit never raises: whatever is absent, null or
\* malformed in a record, it returns a text block.
C13_NeverRaises ==
    name = "format_permit" => pc = "done" /\ result.kind = "text"

\* format_permit returns a text block for the records whose properties and
\* geometry are objects or absent and whose fields are absent or well-formed
C13_WellFormedRenders ==
    (/\ name = "format_permit"
     /\ arguments.properties # "null" /\ arguments.geometry # "null"
     /\ arguments.IssuedDate.t \in {"absent", "num"}
     /\ arguments.ExpirationDate.t \in {"absent", "num"}
     /\ arguments.Cost.t \in {"absent", "num"}
     /\ arguments.Description.t \in {"absent", "str"}
     /\ arguments.coordinates \in {Absent, List(2)})
        => pc = "done" /\ Len(result.blocks) = 1

\* the rounds a fetch can need: each round that is followed by another one
\* carried at least one record, so the budget max_records, or with
\* max_records unset the records the remote holds, bound the rounds
RoundsBudget ==
    IF max_records # None THEN Max(max_records[1], 0) ELSE Len(remoteData) + 1

\* C14 (as claimed): every paginated fetch ends after finitely many rounds,
\* whatever the remote answers and with max_records set or unset: it never
\* issues more requests than its budget of rounds.
C14_Terminates ==
    IsPaginated => Len(requests) <= RoundsBudget

\* with max_records set, the rounds are bounded by it for every remote
C14_BoundedWhenSet ==
    (IsPaginated /\ max_records # None) => Len(requests) <= Max(max_records[1], 0)

\* C15: within one paginated fetch a request is issued only after the
\* previous response was received; the first request has resultOffset 0,
\* every later one the number of records all earlier rounds returned;
\* offsets never decrease and the requested windows do not overlap.
C15_SequentialOffsets ==
    IsPaginated
        => /\ Len(requests) - Len(responses) \in {0, 1}
           /\ (pc = "await" <=> Len(requests) = Len(responses) + 1)
           /\ \A i \in 1..Len(requests) :
                 requests[i].resultOffset = Some(RecordsBefore(i))
           /\ \A i, j \in 1..Len(requests) :
                 i < j => requests[i].resultOffset[1] + requests[i].resultRecordCount[1]
                              <= requests[j].resultOffset[1]

C15_Witness ==
    /\ IsFetch /\ wellBehaved
    /\ Len(requests) = 3
    /\ requests[1].resultOffset = Some(0)
    /\ requests[2].resultOffset = Some(1)
    /\ requests[3].resultOffset = Some(2)
    /\ pc = "await"

-----------------------------------------------------------------------------
(* Concurrent calls.  Every call of call_tool and of                        *)
(* query_permit_api_paginated is a coroutine of its own on the event loop:  *)
(* it runs from one await to the next without interruption, and other calls *)
(* run while it awaits a response.  The variables hold one value per call;  *)
(* each response is logged with whether another call was awaiting then.     *)

NumCalls == 2

Calls == 1..NumCalls

\* all_features = [] and offset = 0 are locals of the invocation: the frame
\* that call c reads and writes
SlotShared(c) == 1

Slot(c) == c

\* the remote data of the concurrent runs: n records
ConcTables == {Table([i \in 1..n |-> DayMs]) : n \in 0..MaxTotal}

ConcAddresses == {None, Some(<<"a">>)}

\* max_records of the concurrent fetches: unset, or one full page
ConcMaxRecords == {None, Some(MaxPage)}

\* another call than c is suspended at its await
OthersAwaiting(c) == \E d \in Calls : d # c /\ pc[d] = "await"

ConcInit ==
    /\ remoteData \in ConcTables
    /\ name = [c \in Calls |-> "idle"]
    /\ arguments = [c \in Calls |-> [limit |-> None]]
    /\ pc = [c \in Calls |-> "idle"]
    /\ where = [c \in Calls |-> WhereAll]
    /\ max_records = [c \in Calls |-> None]
    /\ page_size = [c \in Calls |-> DefaultPageSize]
    /\ all_features = [c \in Calls |-> <<>>]
    /\ offset = [c \in Calls |-> 0]
    /\ batch_size = [c \in Calls |-> 0]
    /\ requests = [c \in Calls |-> <<>>]
    /\ responses = [c \in Calls |-> <<>>]
    /\ wellBehaved = TRUE
    /\ result = [c \in Calls |-> NoResult]

\* call c in query_permit_api_paginated from the loop test on
ConcProceed(c, nm, args, w, M, P, af, off, stop) ==
    /\ all_features' = [all_features EXCEPT ![Slot(c)] = af]
    /\ offset' = [offset EXCEPT ![Slot(c)] = off]
    /\ IF stop
       THEN /\ pc' = [pc EXCEPT ![c] = "done"]
            /\ result' = [result EXCEPT ![c] = Continuation(nm, args, Collection(af))]
            /\ UNCHANGED <<batch_size, requests>>
       ELSE LET batch == BatchSize(P, M, Len(af))
            IN /\ pc' = [pc EXCEPT ![c] = "await"]
               /\ batch_size' = [batch_size EXCEPT ![Slot(c)] = batch]
               /\ requests' = [requests EXCEPT
                                  ![c] = Append(@, Params(w, Some(off), Some(batch), FALSE))]
               /\ UNCHANGED result

\* call c enters query_permit_api_paginated
ConcPaginate(c, nm, args, w, M, P) ==
    /\ pc[c] = "idle"
    /\ name' = [name EXCEPT ![c] = nm]
    /\ arguments' = [arguments EXCEPT ![c] = args]
    /\ where' = [where EXCEPT ![c] = w]
    /\ max_records' = [max_records EXCEPT ![c] = M]
    /\ page_size' = [page_size EXCEPT ![c] = P]
    /\ ConcProceed(c, nm, args, w, M, P, <<>>, 0, ~LoopCond(0, M))
    /\ UNCHANGED <<remoteData, responses, wellBehaved>>

ConcCallFetch(c, M, P) ==
    ConcPaginate(c, "query_permit_api_paginated", [limit |-> None], WhereAll, M, P)

ConcCallAddress(c, address, limit) ==
    ConcPaginate(c, "search_permits_by_address", [limit |-> limit],
                 AddressWhere(Get(address, <<>>)),
                 Some(Get(limit, DefaultLimit)), DefaultPageSize)

\* the remote answers the request of call c, and call c runs on to its next
\* request or to its end
ConcReceivePage(c) ==
    /\ pc[c] = "await"
    /\ LET resp == HonestResponse(requests[c][Len(requests[c])])
           r == AfterRound(all_features[Slot(c)], offset[Slot(c)], resp.features,
                           resp.exceededTransferLimit, batch_size[Slot(c)],
                           max_records[c])
       IN /\ responses' = [responses EXCEPT
                              ![c] = Append(@, [features |-> resp.features,
                                                concurrent |-> OthersAwaiting(c)])]
          /\ ConcProceed(c, name[c], arguments[c], where[c], max_records[c],
                         page_size[c], r.all_features, r.offset, r.stop)
    /\ UNCHANGED <<remoteData, name, arguments, where, max_records, page_size,
                   wellBehaved>>

ConcNext ==
    \/ \E c \in Calls, M \in ConcMaxRecords, P \in PageSizes : ConcCallFetch(c, M, P)
    \/ \E c \in Calls, a \in ConcAddresses : ConcCallAddress(c, a, None)
    \/ \E c \in Calls : ConcReceivePage(c)

ConcSpec == ConcInit /\ [][ConcNext]_vars

\* the records of the first i responses the remote gave to call c
RECURSIVE OwnFeatures(_, _)
OwnFeatures(c, i) ==
    IF i = 0 THEN <<>>
    ELSE OwnFeatures(c, i - 1) \o responses[c][i].features

\* query_permit_api_paginated(w, M, P) run alone against remoteData, from
\* the loop test on
RECURSIVE Alone(_, _, _, _, _)
Alone(w, M, P, af, off) ==
    IF ~LoopCond(Len(af), M)
    THEN af
    ELSE LET batch == BatchSize(P, M, Len(af))
             resp == HonestResponse(Params(w, Some(off), Some(batch), FALSE))
             r == AfterRound(af, off, resp.features, resp.exceededTransferLimit,
                             batch, M)
         IN IF r.stop THEN r.all_features
            ELSE Alone(w, M, P, r.all_features, r.offset)

\* what call c returns when it is the only call
AloneResult(c) ==
    Continuation(name[c], arguments[c],
                 Collection(Alone(where[c], max_records[c], page_size[c], <<>>, 0)))

\* C16: when calls interleave at their awaits against an unchanged remote
\* data set, each call accumulates only the records of its own responses
\* and returns the result it would return when run alone.
C16_Isolated ==
    \A c \in Calls :
        /\ pc[c] # "idle" => all_features[Slot(c)] = OwnFeatures(c, Len(responses[c]))
        /\ pc[c] = "done" => result[c] = AloneResult(c)

\* two calls returned different non-empty results after two rounds each,
\* and each had a response handled while the other was suspended at its await
C16_Witness ==
    /\ pc[1] = "done" /\ pc[2] = "done"
    /\ result[1].features # <<>> /\ result[2].features # <<>>
    /\ result[1] # result[2]
    /\ Len(responses[1]) >= 2 /\ Len(responses[2]) >= 2
    /\ \E i \in 1..Len(responses[1]) : responses[1][i].concurrent
    /\ \E i \in 1..Len(responses[2]) : responses[2][i].concurrent

====
